---- MODULE Spec2Model ----
(***************************************************************************)
(* avocado-ec2: the EC2 keypair / instance wrappers, the process-wide      *)
(* registries with their exit hook (avocado_ec2/ec2_wrapper.py), the part  *)
(* of EC2TestResult that provisions and hands off to the remote runner,    *)
(* its _install_avocado, and EC2Run.run (avocado_ec2/plugins/ec2.py).      *)
(*                                                                         *)
(* The interpreter is single threaded: pc is the position of the main      *)
(* thread, stack the chain of calls it is in.  Every call to the cloud     *)
(* provider or to the file system is a step that either succeeds or        *)
(* raises.  The provider assigning a public IP is the one step that is     *)
(* not the program's.                                                      *)
(***************************************************************************)
EXTENDS Integers, Sequences, FiniteSets, TLC

\* ----------------------------------------------------------------- bounds
\* wrappers constructed in one interpreter run
MaxWrappers == 2
\* seconds counted by the polling loop (the count saturates here)
MaxElapsed == 2

\* -------------------------------------------------------- program constants
\* Python's None, for attributes that hold a resource id or an address
None == 0
\* parameters __init__ of EC2InstanceWrapper accepts besides self
InitArity == 1
\* arguments EC2TestResult.setup passes to EC2InstanceWrapper
SetupCallArgs == 2
DefaultSshPort == 22
DefaultLoginTimeout == 120
DefaultUsername == "fedora"
\* values of --ec2-login-timeout tried
LoginTimeouts == {1, DefaultLoginTimeout}

Wrappers == 1..MaxWrappers

\* plugins/ec2.py:222-226: the option that enables the plugin and the options
\* EC2Run.run requires
EnableArg == "ec2_ami_id"
RequiredArgs == <<"ec2_ami_id", "ec2_security_group_ids", "ec2_subnet_id",
                  "ec2_instance_type">>
\* an option left at its default None, given as the empty string, given a value
Unset == "<None>"
OptionValues == {Unset, "", "given"}
\* args as EC2Run.run may find them: every option an attribute, or
\* ec2_ami_id no attribute at all
RequiredSet == {RequiredArgs[n] : n \in 1..Len(RequiredArgs)}
ArgsInputs == [RequiredSet -> OptionValues] \cup [RequiredSet \ {EnableArg} -> OptionValues]
\* every required option given
ArgsGiven == [a \in RequiredSet |-> "given"]
\* args.remote_result and args.test_runner before EC2Run.run: not set, or set
\* by the framework's own remote plugin
NotSelected == "<unset>"
PriorSelections == {<<NotSelected, NotSelected>>, <<"RemoteTestResult", "RemoteTestRunner">>}
\* avocado.core.exit_codes.AVOCADO_FAIL
AVOCADO_FAIL == "AVOCADO_FAIL"
\* plugins/ec2.py:143: the default of --ec2-ami-distro-type
DefaultDistro == "fedora"
\* plugins/ec2.py:27-29: VALID_DISTROS_MSG, each message as its words
VALID_DISTROS_MSG == << <<"fedora", "(for", "Fedora", ">", "22)">>,
                        <<"el", "(for", "RHEL/CentOS", ">", "6.0)">>,
                        <<"ubuntu", "(for", "Ubuntu", ">", "14.04)">> >>
\* plugins/ec2.py:31: [distro.split()[0] for distro in VALID_DISTROS_MSG]
VALID_DISTROS == [n \in 1..Len(VALID_DISTROS_MSG) |-> Head(VALID_DISTROS_MSG[n])]
\* values of distro_type tried
DistroInputs == {"fedora", "el", "ubuntu", "debian", "Fedora", ""}
\* plugins/ec2.py:103-104: timeout=300
InstallTimeout == 300

\* the address the provider gives instance i, the key file of keypair k
IpOf(i) == 100 + i
KeyFileOf(k) == 200 + k

VARIABLES
    pc,                   \* position of the main thread
    stack,                \* the calls it is in, outermost first
    cur,                  \* the wrapper the current call works on
    exc,                  \* the exception being handled or last propagated
    lastOp,               \* the call that last returned to the top level
    instance,             \* EC2InstanceWrapper.instance, per wrapper
    key_pair,             \* EC2InstanceWrapper.key_pair, per wrapper
    wstate,               \* new / building / ready / failed / destroyed
    EC2_INSTANCES,        \* the registry of instances
    EC2_KEYPAIR_WRAPPERS, \* the registry of keypair wrappers
    instState,            \* provider side: none / pending / running / terminated
    cloudIp,              \* provider side: the public IP of the instance
    public_ip_address,    \* the resource's loaded attribute
    willAssign,           \* whether the provider ever assigns a public IP
    kpState,              \* provider side: none / live / deleted
    fileState,            \* key file: absent / wide / restricted
    oplog,                \* teardown calls issued by the current call
    preInstances,         \* EC2_INSTANCES when the current call started
    preKeypairs,          \* EC2_KEYPAIR_WRAPPERS when the current call started
    failStep,             \* the provisioning step that raised in the current call
    cleanupFailed,        \* whether the cleanup of a failed provisioning raised
    envFault,             \* a provider / file system call failed in the current call
    ec2_login_timeout,    \* args.ec2_login_timeout
    sgids,                \* args.ec2_security_group_ids: None or set
    elapsed,              \* seconds slept in wait_public_ip
    result_instance,      \* EC2TestResult.instance
    remote,               \* args.remote_* as set by setup
    setupCalled,          \* EC2TestResult.setup has been called
    hookIdx,              \* position of the exit hook in the list it walks
    hookRaised,           \* the exit hook ended by an exception
    args,                 \* the parsed options EC2Run.run is handed
    remote_result,        \* args.remote_result
    test_runner,          \* args.test_runner
    exitCode,             \* the status sys.exit was called with
    distro_type,          \* args.ec2_ami_distro_type / the argument of _install_avocado
    remoteRuns            \* the calls of self.remote.run made by _install_avocado

progVars == <<pc, stack, cur, exc, lastOp, sgids>>
wrapVars == <<instance, key_pair, wstate>>
regVars == <<EC2_INSTANCES, EC2_KEYPAIR_WRAPPERS>>
cloudVars == <<instState, cloudIp, public_ip_address, willAssign, kpState, fileState>>
histVars == <<oplog, preInstances, preKeypairs, failStep, cleanupFailed, envFault>>
argVars == <<ec2_login_timeout, elapsed>>
resultVars == <<result_instance, remote, setupCalled>>
hookVars == <<hookIdx, hookRaised>>
pluginVars == <<args, remote_result, test_runner, exitCode, distro_type, remoteRuns>>
vars == <<progVars, wrapVars, regVars, cloudVars, histVars, argVars, resultVars, hookVars,
          pluginVars>>

NoRemote == [hostname |-> None, key_file |-> None, port |-> None,
             username |-> "", timeout |-> None]
NoOp == [op |-> "none", w |-> None, pre |-> "none"]

Init ==
    /\ pc = "idle"
    /\ stack = <<>>
    /\ cur = None
    /\ exc = "none"
    /\ lastOp = NoOp
    /\ instance = [w \in Wrappers |-> None]
    /\ key_pair = [w \in Wrappers |-> None]
    /\ wstate = [w \in Wrappers |-> "new"]
    /\ EC2_INSTANCES = <<>>
    /\ EC2_KEYPAIR_WRAPPERS = <<>>
    /\ instState = [w \in Wrappers |-> "none"]
    /\ cloudIp = [w \in Wrappers |-> None]
    /\ public_ip_address = [w \in Wrappers |-> None]
    /\ willAssign = [w \in Wrappers |-> FALSE]
    /\ kpState = [w \in Wrappers |-> "none"]
    /\ fileState = [w \in Wrappers |-> "absent"]
    /\ oplog = <<>>
    /\ preInstances = <<>>
    /\ preKeypairs = <<>>
    /\ failStep = "none"
    /\ cleanupFailed = FALSE
    /\ envFault = FALSE
    /\ ec2_login_timeout \in LoginTimeouts
    /\ sgids = None
    /\ elapsed = 0
    /\ result_instance = None
    /\ remote = NoRemote
    /\ setupCalled = FALSE
    /\ hookIdx = 0
    /\ hookRaised = FALSE
    /\ args = ArgsGiven
    /\ remote_result = "EC2TestResult"
    /\ test_runner = "RemoteTestRunner"
    /\ exitCode = "none"
    /\ distro_type = DefaultDistro
    /\ remoteRuns = <<>>

\* ---------------------------------------------------------------- helpers
Top == stack[Len(stack)]
InSeq(s, x) == \E n \in 1..Len(s) : s[n] = x
Count(s, x) == Cardinality({n \in 1..Len(s) : s[n] = x})

\* list.pop() where list.remove(x) is meant
ListRemove_Pop(s, x) == SubSeq(s, 1, Len(s) - 1)

\* list.remove(x): the list without the first x (the caller checks presence)
FirstIndex(s, x) == CHOOSE n \in 1..Len(s) : s[n] = x /\ \A m \in 1..(n - 1) : s[m] # x
ListRemove(s, x) ==
    LET n == FirstIndex(s, x)
    IN SubSeq(s, 1, n - 1) \o SubSeq(s, n + 1, Len(s))

\* the wrapper a new construction uses: ids are handed out in order
NextWrapper == CHOOSE w \in Wrappers : wstate[w] = "new" /\ \A v \in 1..(w - 1) : wstate[v] # "new"
HasFreeWrapper == \E w \in Wrappers : wstate[w] = "new"

\* ------------------------------------------------ returns to the caller
\* what every return to the top level sets: the variables of progVars
ToTopLevel(op, w, e) ==
    /\ pc' = "idle"
    /\ stack' = <<>>
    /\ cur' = None
    /\ exc' = e
    /\ sgids' = None
    /\ lastOp' = [op |-> op, w |-> w, pre |-> wstate[w]]

\* plugins/ec2.py:106-109, tear_down: the parent's tear_down, then destroy
\* when an instance wrapper is held
TearDownDestroys == result_instance # None

\* plugins/ec2.py:60-61: super().setup() or _install_avocado(distro_type)
\* raises: one of their remote calls fails, or the distro type is not valid
SetupRestRaises(ok) == ~ok \/ ~InSeq(VALID_DISTROS, distro_type)

\* ec2_wrapper.py:129-132 and 104, then plugins/ec2.py:51-64 and 106-109 when
\* setup is the caller: _init_resources and __init__ return; setup keeps the
\* wrapper and fills in args.remote_*, then runs the parent's setup and
\* _install_avocado: it returns, or one of them raises and the handler calls
\* tear_down, which destroys the wrapper, before it re-raises
CtorReturns(w) ==
    /\ wstate' = [wstate EXCEPT ![w] = "ready"]
    /\ UNCHANGED cleanupFailed
    /\ IF stack[1] = "setup"
       THEN /\ result_instance' = w
            /\ remote' = [hostname |-> public_ip_address[instance[w]],
                          key_file |-> KeyFileOf(key_pair[w]),
                          port |-> DefaultSshPort,
                          username |-> DefaultUsername,
                          timeout |-> ec2_login_timeout]
            /\ UNCHANGED setupCalled
            /\ \E ok \in BOOLEAN :
                 IF SetupRestRaises(ok)
                 THEN /\ pc' = "destroy_inst"
                      /\ stack' = <<"setup", "tear_down">>
                      /\ exc' = IF ok THEN "ValueError" ELSE "Exception"
                                        /\ UNCHANGED <<cur, lastOp, sgids>>
                 ELSE /\ ToTopLevel("setup", w, "none")
                 ELSE /\ ToTopLevel("ctor", w, "none")
            /\ UNCHANGED resultVars

\* ec2_wrapper.py:67 and 104, then plugins/ec2.py:62-64 when setup is the
\* caller: the exception leaves __init__; setup's handler runs tear_down
\* (self.instance was never assigned, so destroy is not called) and re-raises
CtorRaises(w, e) ==
    /\ wstate' = [wstate EXCEPT ![w] = "failed"]
    /\ ToTopLevel(IF stack[1] = "setup" THEN "setup" ELSE "ctor", w, e)
    /\ UNCHANGED resultVars

\* EC2InstanceWrapper.destroy ends, normally (e = "none") or raising e
DestroyFinish(w, e) ==
    IF Top = "cleanup"
    THEN \* ec2_wrapper.py:66-67: a raising destroy replaces the exception,
         \* otherwise the original one is re-raised
         /\ cleanupFailed' = (e # "none")
         /\ CtorRaises(w, IF e # "none" THEN e ELSE exc)
    ELSE /\ wstate' = [wstate EXCEPT ![w] = IF e = "none" THEN "destroyed" ELSE @]
         /\ UNCHANGED <<cleanupFailed, resultVars>>
         /\ IF stack[1] = "setup"
            THEN ToTopLevel("setup", w, IF e # "none" THEN e ELSE exc)
            ELSE ToTopLevel(Top, w, e)

\* ---------------------------------------------------------- construction
\* ec2_wrapper.py:97-104: EC2InstanceWrapper(args) by a caller that follows
\* the signature; args.ec2_security_group_ids is set or None
Construct(sg) ==
    /\ pc = "idle"
    /\ HasFreeWrapper
    /\ pc' = "resource"
    /\ stack' = <<"ctor">>
    /\ cur' = NextWrapper
    /\ exc' = "none"
    /\ wstate' = [wstate EXCEPT ![NextWrapper] = "building"]
    /\ instance' = [instance EXCEPT ![NextWrapper] = None]
    /\ key_pair' = [key_pair EXCEPT ![NextWrapper] = None]
    /\ sgids' = sg
    /\ elapsed' = 0
    /\ oplog' = <<>>
    /\ preInstances' = EC2_INSTANCES
    /\ preKeypairs' = EC2_KEYPAIR_WRAPPERS
    /\ lastOp' = NoOp
    /\ failStep' = "none"
    /\ cleanupFailed' = FALSE
    /\ envFault' = FALSE
    /\ UNCHANGED <<regVars, cloudVars, ec2_login_timeout,
                   resultVars, hookVars>>
    /\ UNCHANGED pluginVars

\* args.ec2_security_group_ids when the option was given
SgidsSet == 1

\* the call EC2InstanceWrapper(a1, ..., an) binds when n is the arity
CallBinds(nargs) == nargs = InitArity

\* plugins/ec2.py:46-64: EC2TestResult.setup up to the construction of the
\* wrapper: EC2InstanceWrapper(self.args, self.stream).  EC2Run.run selects
\* EC2TestResult only with args.ec2_security_group_ids set (plugins/ec2.py:222-227)
Setup ==
    /\ pc = "idle"
    /\ ~setupCalled
    /\ HasFreeWrapper
    /\ setupCalled' = TRUE
    /\ failStep' = "none"
    /\ cleanupFailed' = FALSE
    /\ oplog' = <<>>
    /\ preInstances' = EC2_INSTANCES
    /\ preKeypairs' = EC2_KEYPAIR_WRAPPERS
    /\ IF CallBinds(SetupCallArgs)
       THEN /\ pc' = "resource"
            /\ stack' = <<"setup", "ctor">>
            /\ cur' = NextWrapper
            /\ exc' = "none"
            /\ wstate' = [wstate EXCEPT ![NextWrapper] = "building"]
            /\ instance' = [instance EXCEPT ![NextWrapper] = None]
            /\ key_pair' = [key_pair EXCEPT ![NextWrapper] = None]
            /\ sgids' = SgidsSet
            /\ elapsed' = 0
            /\ lastOp' = NoOp
       ELSE \* TypeError from the call; the handler runs tear_down, which
            \* finds self.instance None, and re-raises
            /\ pc' = "idle"
            /\ stack' = <<>>
            /\ cur' = None
            /\ exc' = "TypeError"
            /\ lastOp' = [op |-> "setup", w |-> None, pre |-> "none"]
            /\ UNCHANGED <<wstate, instance, key_pair, sgids, elapsed>>
    /\ envFault' = FALSE
    /\ UNCHANGED <<regVars, cloudVars, ec2_login_timeout,
                   result_instance, remote, hookVars>>
    /\ UNCHANGED pluginVars

\* ec2_wrapper.py:62-67, the except branch of clean_aws_resources: a step of
\* _init_resources raised e, args[0].destroy() is called
EnterCleanup(e) ==
    /\ pc' = "destroy_inst"
    /\ stack' = Append(stack, "cleanup")
    /\ exc' = e
    /\ failStep' = pc
    /\ UNCHANGED <<cur, lastOp, sgids>>

\* ec2_wrapper.py:108: boto3.resource('ec2')
BotoResource ==
    /\ pc = "resource"
    /\ pc' = "kp_create"
    /\ UNCHANGED <<stack, cur, exc, lastOp, sgids, wrapVars, regVars, cloudVars, histVars,
                   argVars, resultVars, hookVars>>
    /\ UNCHANGED pluginVars

\* ec2_wrapper.py:74-75: service.create_key_pair(KeyName=name)
CreateKeyPair ==
    /\ pc = "kp_create"
    /\ pc' = "kp_write"
    /\ kpState' = [kpState EXCEPT ![cur] = "live"]
    /\ UNCHANGED <<stack, cur, exc, lastOp, sgids, wrapVars, regVars, instState, cloudIp,
                   public_ip_address, willAssign, fileState, histVars, argVars,
                   resultVars, hookVars>>
    /\ UNCHANGED pluginVars

\* ec2_wrapper.py:76-79: the key material is written to a new file, created
\* with the default mode
WriteKeyFile ==
    /\ pc = "kp_write"
    /\ pc' = "kp_chmod"
    /\ fileState' = [fileState EXCEPT ![cur] = "wide"]
    /\ UNCHANGED <<stack, cur, exc, lastOp, sgids, wrapVars, regVars, instState, cloudIp,
                   public_ip_address, willAssign, kpState, histVars, argVars,
                   resultVars, hookVars>>
    /\ UNCHANGED pluginVars

\* ec2_wrapper.py:111: EC2_KEYPAIR_WRAPPERS.append(self.key_pair)
RegisterKeyPair(reg, k) == Append(reg, k)

\* ec2_wrapper.py:80-82 and 109-111: os.chmod(key_file, 0o400); the
\* constructor of KeyPairWrapper returns, the wrapper is kept and registered
ChmodKeyFile ==
    /\ pc = "kp_chmod"
    /\ pc' = "sgid"
    /\ fileState' = [fileState EXCEPT ![cur] = "restricted"]
    /\ key_pair' = [key_pair EXCEPT ![cur] = cur]
    /\ EC2_KEYPAIR_WRAPPERS' = RegisterKeyPair(EC2_KEYPAIR_WRAPPERS, cur)
    /\ UNCHANGED <<stack, cur, exc, lastOp, sgids, instance, wstate, EC2_INSTANCES,
                   instState, cloudIp, public_ip_address, willAssign, kpState,
                   histVars, argVars, resultVars, hookVars>>
    /\ UNCHANGED pluginVars

\* ec2_wrapper.py:112: args.ec2_security_group_ids.split(','); None has no
\* split
SplitSgids ==
    /\ pc = "sgid"
    /\ IF sgids = None
       THEN /\ EnterCleanup("AttributeError")
            /\ UNCHANGED <<oplog, preInstances, preKeypairs, cleanupFailed, envFault>>
       ELSE /\ pc' = "create_inst"
            /\ UNCHANGED <<stack, cur, exc, lastOp, sgids, histVars>>
    /\ UNCHANGED <<wrapVars, regVars, cloudVars, argVars, resultVars, hookVars>>
    /\ UNCHANGED pluginVars

\* the list is added twice
RegisterInstances_Twice(reg, insts) == reg \o insts \o insts

\* ec2_wrapper.py:121: EC2_INSTANCES += inst_list
RegisterInstances(reg, insts) == reg \o insts

\* ec2_wrapper.py:114-124: create_instances(MinCount=1, MaxCount=1, ...), the
\* list returned is registered and its first element kept
CreateInstances ==
    /\ pc = "create_inst"
    /\ pc' = "tag"
    /\ \E b \in BOOLEAN : willAssign' = [willAssign EXCEPT ![cur] = b]
    /\ instState' = [instState EXCEPT ![cur] = "pending"]
    /\ EC2_INSTANCES' = RegisterInstances(EC2_INSTANCES, <<cur>>)
    /\ instance' = [instance EXCEPT ![cur] = cur]
    /\ UNCHANGED <<stack, cur, exc, lastOp, sgids, key_pair, wstate, EC2_KEYPAIR_WRAPPERS, cloudIp, public_ip_address, kpState, fileState,
                   histVars, argVars, resultVars, hookVars>>
    /\ UNCHANGED pluginVars

\* ec2_wrapper.py:126-127: create_tags
CreateTags ==
    /\ pc = "tag"
    /\ pc' = "wait_running"
    /\ UNCHANGED <<stack, cur, exc, lastOp, sgids, wrapVars, regVars, cloudVars, histVars,
                   argVars, resultVars, hookVars>>
    /\ UNCHANGED pluginVars

\* ec2_wrapper.py:128: instance.wait_until_running() returns once the
\* provider reports the instance running
WaitUntilRunning ==
    /\ pc = "wait_running"
    /\ pc' = "wait_ip"
    /\ instState' = [instState EXCEPT ![instance[cur]] = "running"]
    /\ UNCHANGED <<stack, cur, exc, lastOp, sgids, wrapVars, regVars, cloudIp,
                   public_ip_address, willAssign, kpState, fileState, histVars, argVars,
                   resultVars, hookVars>>
    /\ UNCHANGED pluginVars

\* the loop gives up once the login timeout has passed
WaitCond_Timeout(w) ==
    public_ip_address[instance[w]] = None /\ elapsed < ec2_login_timeout

\* the loop is left once the provider has the address, before it is loaded
WaitCond_Provider(w) == cloudIp[instance[w]] = None

\* ec2_wrapper.py:135: the condition of the polling loop
WaitCond(w) == public_ip_address[instance[w]] = None

\* time.sleep(1), counted up to MaxElapsed
Slept(t) == IF t < MaxElapsed THEN t + 1 ELSE t

\* ec2_wrapper.py:134-137 (and 129-132 on leaving the loop): one turn of
\* wait_public_ip: sleep and reload while no address is loaded, else return
WaitPublicIp ==
    /\ pc = "wait_ip"
    /\ IF WaitCond(cur)
       THEN /\ elapsed' = Slept(elapsed)
            /\ public_ip_address' = [public_ip_address EXCEPT
                                       ![instance[cur]] = cloudIp[instance[cur]]]
            /\ UNCHANGED <<progVars, wstate, cleanupFailed, resultVars>>
       ELSE /\ CtorReturns(cur)
            /\ elapsed' = 0
            /\ UNCHANGED public_ip_address
    /\ UNCHANGED <<instance, key_pair, regVars, instState, cloudIp,
                   willAssign, kpState, fileState, oplog, preInstances, preKeypairs,
                   failStep, envFault, ec2_login_timeout, hookVars>>
    /\ UNCHANGED pluginVars

\* the provider assigns the public IP of a running instance
ProviderAssignIp(i) ==
    /\ instState[i] = "running"
    /\ willAssign[i]
    /\ cloudIp[i] = None
    /\ cloudIp' = [cloudIp EXCEPT ![i] = IpOf(i)]
    /\ UNCHANGED <<progVars, wrapVars, regVars, instState, public_ip_address,
                   willAssign, kpState, fileState, histVars, argVars, resultVars,
                   hookVars>>
    /\ UNCHANGED pluginVars

\* the steps of _init_resources that call the provider or the file system
FallibleSteps == {"resource", "kp_create", "kp_write", "kp_chmod", "create_inst",
                  "tag", "wait_running", "wait_ip"}

\* a provider or file system call of _init_resources raises (in the polling
\* loop: reload); an open() that succeeded leaves the file behind
ProvisionRaises ==
    /\ pc \in FallibleSteps
    /\ pc = "wait_ip" => WaitCond(cur)
    /\ EnterCleanup("Exception")
    /\ envFault' = TRUE
    /\ elapsed' = 0
    /\ IF pc = "kp_write"
       THEN \E f \in {"absent", "wide"} : fileState' = [fileState EXCEPT ![cur] = f]
       ELSE UNCHANGED fileState
    /\ UNCHANGED <<wrapVars, regVars, instState, cloudIp, public_ip_address, willAssign,
                   kpState, oplog, preInstances, preKeypairs, cleanupFailed,
                   ec2_login_timeout, resultVars, hookVars>>
    /\ UNCHANGED pluginVars

\* ------------------------------------------------------------- teardown
\* the keypair branch nested under the instance branch
DestroyKeyPairGuard_NeedsInstance(w) == instance[w] # None /\ key_pair[w] # None

\* ec2_wrapper.py:140 and 144: the guards of destroy
DestroyInstanceGuard(w) == instance[w] # None
DestroyKeyPairGuard(w) == key_pair[w] # None

\* EC2InstanceWrapper.destroy() called by the owner of a constructed wrapper
DestroyCall(w) ==
    /\ pc = "idle"
    /\ wstate[w] \in {"ready", "destroyed"}
    /\ pc' = "destroy_inst"
    /\ stack' = <<"destroy">>
    /\ cur' = w
    /\ exc' = "none"
    /\ oplog' = <<>>
    /\ preInstances' = EC2_INSTANCES
    /\ preKeypairs' = EC2_KEYPAIR_WRAPPERS
    /\ lastOp' = NoOp
    /\ failStep' = "none"
    /\ cleanupFailed' = FALSE
    /\ envFault' = FALSE
    /\ UNCHANGED <<sgids, instance, key_pair, wstate, regVars, cloudVars, argVars,
                   resultVars, hookVars>>
    /\ UNCHANGED pluginVars

\* plugins/ec2.py:106-109: EC2TestResult.tear_down called by the framework
TearDown ==
    /\ pc = "idle"
    /\ oplog' = <<>>
    /\ preInstances' = EC2_INSTANCES
    /\ preKeypairs' = EC2_KEYPAIR_WRAPPERS
    /\ IF TearDownDestroys
       THEN /\ pc' = "destroy_inst"
            /\ stack' = <<"tear_down">>
            /\ cur' = result_instance
            /\ exc' = "none"
            /\ lastOp' = NoOp
       ELSE /\ pc' = "idle"
            /\ stack' = <<>>
            /\ cur' = None
            /\ exc' = "none"
            /\ lastOp' = [op |-> "tear_down", w |-> None, pre |-> "none"]
    /\ failStep' = "none"
    /\ cleanupFailed' = FALSE
    /\ envFault' = FALSE
    /\ UNCHANGED <<sgids, wrapVars, regVars, cloudVars, argVars, resultVars, hookVars>>
    /\ UNCHANGED pluginVars

\* ec2_wrapper.py:140-143: terminate the instance and take it out of the
\* registry; list.remove raises ValueError when it is not there
DestroyInstance ==
    /\ pc = "destroy_inst"
    /\ IF DestroyInstanceGuard(cur)
       THEN /\ instState' = [instState EXCEPT ![instance[cur]] = "terminated"]
            /\ IF InSeq(EC2_INSTANCES, instance[cur])
               THEN /\ EC2_INSTANCES' = ListRemove(EC2_INSTANCES, instance[cur])
                    /\ oplog' = oplog \o <<<<"terminate", instance[cur]>>,
                                           <<"unregister_instance", instance[cur]>>>>
                    /\ pc' = "destroy_kp"
                    /\ UNCHANGED <<stack, cur, exc, lastOp, sgids, wstate, cleanupFailed,
                                   resultVars>>
               ELSE /\ oplog' = Append(oplog, <<"terminate", instance[cur]>>)
                    /\ DestroyFinish(cur, "ValueError")
                    /\ UNCHANGED EC2_INSTANCES
       ELSE /\ pc' = "destroy_kp"
            /\ UNCHANGED <<stack, cur, exc, lastOp, sgids, wstate, cleanupFailed, resultVars,
                           instState, EC2_INSTANCES, oplog>>
    /\ UNCHANGED <<instance, key_pair, EC2_KEYPAIR_WRAPPERS, cloudIp,
                   public_ip_address, willAssign, kpState, fileState, preInstances,
                   preKeypairs, failStep, envFault, argVars, hookVars>>
    /\ UNCHANGED pluginVars

\* ec2_wrapper.py:89-92: os.remove(key_file), OSError swallowed: the file is
\* gone when the removal worked, left as it was otherwise
RemovedFile(f, ok) == IF ok THEN "absent" ELSE f

\* ec2_wrapper.py:87-92: what KeyPairWrapper.destroy calls
KeyPairDestroyCalls(k) == <<<<"kp_destroy", k>>, <<"delete", k>>, <<"os_remove", k>>>>

\* os.remove raises OSError when the removal does not work
RemoveRaises(ok) == IF ok THEN "none" ELSE "OSError"

\* no handler around os.remove
Swallowed_Nothing(e) == FALSE

\* ec2_wrapper.py:89-92: try: os.remove(...) except OSError: pass
Swallowed(e) == e = "OSError"

\* the exception a call of KeyPairWrapper.destroy met, in the log
RaisedLog(e, k) == IF e = "none" THEN <<>> ELSE <<<<e, k>>>>

\* ec2_wrapper.py:144-147 with 87-92: destroy the keypair wrapper (delete the
\* provider's keypair, remove the file) and take it out of the registry
DestroyKeyPair ==
    /\ pc = "destroy_kp"
    /\ IF DestroyKeyPairGuard(cur)
       THEN /\ kpState' = [kpState EXCEPT ![key_pair[cur]] = "deleted"]
            /\ \E ok \in BOOLEAN :
                 LET e == RemoveRaises(ok)
                     calls == KeyPairDestroyCalls(key_pair[cur]) \o RaisedLog(e, key_pair[cur])
                 IN /\ fileState' = [fileState EXCEPT ![key_pair[cur]] = RemovedFile(@, ok)]
                    /\ IF e # "none" /\ ~Swallowed(e)
                       THEN /\ oplog' = oplog \o calls
                            /\ DestroyFinish(cur, e)
                            /\ UNCHANGED EC2_KEYPAIR_WRAPPERS
                       ELSE IF InSeq(EC2_KEYPAIR_WRAPPERS, key_pair[cur])
                       THEN /\ EC2_KEYPAIR_WRAPPERS' =
                                  ListRemove(EC2_KEYPAIR_WRAPPERS, key_pair[cur])
                            /\ oplog' = oplog \o calls
                                              \o <<<<"unregister_keypair", key_pair[cur]>>>>
                            /\ DestroyFinish(cur, "none")
                       ELSE /\ oplog' = oplog \o calls
                            /\ DestroyFinish(cur, "ValueError")
                            /\ UNCHANGED EC2_KEYPAIR_WRAPPERS
       ELSE /\ DestroyFinish(cur, "none")
            /\ UNCHANGED <<kpState, fileState, EC2_KEYPAIR_WRAPPERS, oplog>>
    /\ UNCHANGED <<instance, key_pair, EC2_INSTANCES, instState, cloudIp,
                   public_ip_address, willAssign, preInstances, preKeypairs, failStep,
                   envFault, argVars, hookVars>>
    /\ UNCHANGED pluginVars

\* the provider call of the current step of destroy raises: instance.terminate()
\* or key_pair.delete(); the exception leaves destroy
DestroyRaises ==
    /\ \/ /\ pc = "destroy_inst"
          /\ DestroyInstanceGuard(cur)
          /\ oplog' = Append(oplog, <<"terminate", instance[cur]>>)
       \/ /\ pc = "destroy_kp"
          /\ DestroyKeyPairGuard(cur)
          /\ oplog' = oplog \o <<<<"kp_destroy", key_pair[cur]>>,
                                 <<"delete", key_pair[cur]>>,
                                 <<"delete_raised", key_pair[cur]>>>>
    /\ envFault' = TRUE
    /\ DestroyFinish(cur, "Exception")
    /\ UNCHANGED <<instance, key_pair, regVars, cloudVars, preInstances,
                   preKeypairs, failStep, argVars, hookVars>>
    /\ UNCHANGED pluginVars

\* ------------------------------------------------------------ exit hook
\* the keypair loop stops one short
HookPc_ShortLoop(n) ==
    IF n <= Len(EC2_INSTANCES) THEN "hook_inst"
    ELSE IF n - Len(EC2_INSTANCES) < Len(EC2_KEYPAIR_WRAPPERS) THEN "hook_kp"
    ELSE "exited"

\* ec2_wrapper.py:45-49: where the hook stands when it has made n - 1 calls:
\* in the loop over EC2_INSTANCES, in the loop over EC2_KEYPAIR_WRAPPERS, done
HookPc(n) ==
    IF n <= Len(EC2_INSTANCES) THEN "hook_inst"
    ELSE IF n - Len(EC2_INSTANCES) <= Len(EC2_KEYPAIR_WRAPPERS) THEN "hook_kp"
    ELSE "exited"

\* ec2_wrapper.py:52: the interpreter exits (the program ended, or an
\* exception that is no Exception, such as KeyboardInterrupt, left the main
\* thread) and runs clean_aws_resources_atexit
InterpreterExit ==
    /\ pc \notin {"hook_inst", "hook_kp", "exited"}
    /\ pc' = HookPc(1)
    /\ hookIdx' = 1
    /\ oplog' = <<>>
    /\ preInstances' = EC2_INSTANCES
    /\ preKeypairs' = EC2_KEYPAIR_WRAPPERS
    /\ stack' = <<>>
    /\ cur' = None
    /\ exc' = "none"
    /\ lastOp' = NoOp
    /\ sgids' = None
    /\ elapsed' = 0
    /\ failStep' = "none"
    /\ cleanupFailed' = FALSE
    /\ envFault' = FALSE
    /\ UNCHANGED <<wrapVars, regVars, cloudVars, ec2_login_timeout, resultVars,
                   hookRaised>>
    /\ UNCHANGED pluginVars

\* ec2_wrapper.py:45-46: instance.terminate() for the next registered instance
HookTerminate ==
    /\ pc = "hook_inst"
    /\ instState' = [instState EXCEPT ![EC2_INSTANCES[hookIdx]] = "terminated"]
    /\ oplog' = Append(oplog, <<"terminate", EC2_INSTANCES[hookIdx]>>)
    /\ hookIdx' = hookIdx + 1
    /\ pc' = HookPc(hookIdx + 1)
    /\ UNCHANGED <<stack, cur, exc, lastOp, sgids, wrapVars, regVars, cloudIp,
                   public_ip_address, willAssign, kpState, fileState, preInstances,
                   preKeypairs, failStep, cleanupFailed, envFault, argVars, resultVars,
                   hookRaised>>
    /\ UNCHANGED pluginVars

\* the keypair wrapper the hook's second loop stands at
HookKeyPair == EC2_KEYPAIR_WRAPPERS[hookIdx - Len(EC2_INSTANCES)]

\* ec2_wrapper.py:48-49 with 87-92: key_pair.destroy() for the next
\* registered wrapper
HookDestroyKeyPair ==
    /\ pc = "hook_kp"
    /\ kpState' = [kpState EXCEPT ![HookKeyPair] = "deleted"]
    /\ \E ok \in BOOLEAN :
         LET e == RemoveRaises(ok) IN
         /\ fileState' = [fileState EXCEPT ![HookKeyPair] = RemovedFile(@, ok)]
         /\ oplog' = oplog \o KeyPairDestroyCalls(HookKeyPair) \o RaisedLog(e, HookKeyPair)
         /\ IF e # "none" /\ ~Swallowed(e)
            THEN /\ pc' = "exited"
                 /\ hookRaised' = TRUE
                 /\ UNCHANGED hookIdx
            ELSE /\ hookIdx' = hookIdx + 1
                 /\ pc' = HookPc(hookIdx + 1)
                 /\ UNCHANGED hookRaised
    /\ UNCHANGED <<stack, cur, exc, lastOp, sgids, wrapVars, regVars, instState, cloudIp,
                   public_ip_address, willAssign, preInstances, preKeypairs, failStep,
                   cleanupFailed, envFault, argVars, resultVars>>
    /\ UNCHANGED pluginVars

\* ec2_wrapper.py:45-49: the call of the current turn raises; nothing in the
\* hook handles it, so the hook ends there
HookRaises ==
    /\ pc \in {"hook_inst", "hook_kp"}
    /\ oplog' = IF pc = "hook_inst"
                THEN Append(oplog, <<"terminate", EC2_INSTANCES[hookIdx]>>)
                ELSE oplog \o <<<<"kp_destroy", HookKeyPair>>, <<"delete", HookKeyPair>>,
                               <<"delete_raised", HookKeyPair>>>>
    /\ pc' = "exited"
    /\ hookRaised' = TRUE
    /\ envFault' = TRUE
    /\ UNCHANGED <<stack, cur, exc, lastOp, sgids, wrapVars, regVars, cloudVars, preInstances,
                   preKeypairs, failStep, cleanupFailed, argVars, resultVars, hookIdx>>
    /\ UNCHANGED pluginVars

\* --------------------------------------------------- the plugin's run hook
\* truth value of an option's value
Truthy(v) == v \notin {Unset, ""}

\* the attribute test without the truth test
CheckEnabled_HasAttr(a, enable_arg) == enable_arg \in DOMAIN a

\* plugins/ec2.py:203-205: hasattr(args, enable_arg) and getattr(args, enable_arg)
CheckEnabled(a, enable_arg) == enable_arg \in DOMAIN a /\ Truthy(a[enable_arg])

\* the loop stops before the last required option
Missing_SkipsLast(a, required) ==
    SelectSeq(SubSeq(required, 1, Len(required) - 1), LAMBDA arg : ~Truthy(a[arg]))

\* plugins/ec2.py:206-209: the required options whose value is false
Missing(a, required) == SelectSeq(required, LAMBDA arg : ~Truthy(a[arg]))

\* plugins/ec2.py:198-219: _check_required_args (the second definition in the
\* class body, which replaces the first): False, True, or sys.exit
CheckRequiredArgs(a, enable_arg, required) ==
    IF ~CheckEnabled(a, enable_arg) THEN "False"
    ELSE IF Missing(a, required) # <<>> THEN "exit"
    ELSE "True"

\* plugins/ec2.py:221-228: EC2Run.run(args).  sys.exit raises SystemExit, the
\* interpreter exits and runs the exit hook over the registries
Run ==
    /\ pc = "idle"
    /\ stack' = <<>>
    /\ exc' = "none"
    /\ lastOp' = [op |-> "run", w |-> None, pre |-> "none"]
    /\ LET r == CheckRequiredArgs(args, EnableArg, RequiredArgs) IN
         /\ pc' = IF r = "exit" THEN HookPc(1) ELSE "idle"
         /\ exitCode' = IF r = "exit" THEN AVOCADO_FAIL ELSE exitCode
         /\ remote_result' = IF r = "True" THEN "EC2TestResult" ELSE remote_result
         /\ test_runner' = IF r = "True" THEN "RemoteTestRunner" ELSE test_runner
    /\ UNCHANGED <<cur, sgids, wrapVars, regVars, cloudVars, histVars, argVars,
                   resultVars, hookVars, args, distro_type, remoteRuns>>

\* ------------------------------------------------------- _install_avocado
\* el installs with dnf
InstallCmd_Dnf(d) ==
    CASE d = "fedora" -> "sudo dnf install -y avocado"
      [] d = "el" -> "sudo dnf install -y avocado"
      [] d = "ubuntu" -> "sudo apt-get install --yes " \o "--allow-unauthenticated avocado"
      [] OTHER -> Unset

\* plugins/ec2.py:84-86, 90-92, 96-98: remote_repo and local_repo
RemoteRepo(d) ==
    CASE d = "fedora" -> "https://repos-avocadoproject.rhcloud.com/static/"
                         \o "avocado-fedora.repo"
      [] d = "el" -> "https://repos-avocadoproject.rhcloud.com/static/" \o "avocado-el.repo"
      [] d = "ubuntu" -> "deb http://ppa.launchpad.net/lmr/avocado/ubuntu " \o "wily main"
LocalRepo(d) ==
    CASE d = "fedora" -> "/etc/yum.repos.d/avocado.repo"
      [] d = "el" -> "/etc/yum.repos.d/avocado.repo"
      [] d = "ubuntu" -> "/etc/apt/sources.list.d/avocado.list"

\* plugins/ec2.py:76, 87, 93, 99: retrieve_cmd, None unless a branch sets it
RetrieveCmd(d) ==
    CASE d \in {"fedora", "el"} -> "sudo curl " \o RemoteRepo(d) \o " -o " \o LocalRepo(d)
      [] d = "ubuntu" -> "sudo echo \"" \o RemoteRepo(d) \o "\" > " \o LocalRepo(d)
      [] OTHER -> Unset

\* plugins/ec2.py:77, 88, 94, 100-101: install_cmd, None unless a branch sets it
InstallCmd(d) ==
    CASE d = "fedora" -> "sudo dnf install -y avocado"
      [] d = "el" -> "sudo yum install -y avocado"
      [] d = "ubuntu" -> "sudo apt-get install --yes " \o "--allow-unauthenticated avocado"
      [] OTHER -> Unset

\* install_cmd is run first
CmdAt_Swapped(step, d) == IF step = "install_retrieve" THEN InstallCmd(d) ELSE RetrieveCmd(d)

\* plugins/ec2.py:103-104: the command each of the two remote.run calls is given
CmdAt(step, d) == IF step = "install_retrieve" THEN RetrieveCmd(d) ELSE InstallCmd(d)

InstallOp == [op |-> "install", w |-> None, pre |-> "none"]

\* plugins/ec2.py:66-82: _install_avocado(distro_type) up to the first
\* remote.run: ValueError for a type that is not in VALID_DISTROS
InstallAvocado(d) ==
    /\ pc = "idle"
    /\ distro_type' = d
    /\ remoteRuns' = <<>>
    /\ failStep' = "none"
    /\ IF ~InSeq(VALID_DISTROS, d)
       THEN /\ pc' = "idle"
            /\ stack' = <<>>
            /\ exc' = "ValueError"
            /\ lastOp' = InstallOp
       ELSE /\ pc' = "install_retrieve"
            /\ stack' = <<"install">>
            /\ exc' = "none"
            /\ lastOp' = NoOp
    /\ UNCHANGED <<cur, sgids, wrapVars, regVars, cloudVars, oplog, preInstances,
                   preKeypairs, cleanupFailed, envFault, argVars, resultVars, hookVars,
                   args, remote_result, test_runner, exitCode>>

\* plugins/ec2.py:103-106: self.remote.run(cmd, timeout=300) returns; after
\* the second one _install_avocado returns True
RemoteRun ==
    /\ pc \in {"install_retrieve", "install_install"}
    /\ remoteRuns' = Append(remoteRuns, [cmd |-> CmdAt(pc, distro_type),
                                         timeout |-> InstallTimeout])
    /\ IF pc = "install_retrieve"
       THEN /\ pc' = "install_install"
            /\ UNCHANGED <<stack, exc, lastOp>>
       ELSE /\ pc' = "idle"
            /\ stack' = <<>>
            /\ exc' = "none"
            /\ lastOp' = InstallOp
    /\ UNCHANGED <<cur, sgids, wrapVars, regVars, cloudVars, histVars, argVars,
                   resultVars, hookVars, args, remote_result, test_runner, exitCode,
                   distro_type>>

\* plugins/ec2.py:103-104: self.remote.run(cmd, timeout=300) raises; the
\* exception leaves _install_avocado
RemoteRunRaises ==
    /\ pc \in {"install_retrieve", "install_install"}
    /\ remoteRuns' = Append(remoteRuns, [cmd |-> CmdAt(pc, distro_type),
                                         timeout |-> InstallTimeout])
    /\ failStep' = pc
    /\ pc' = "idle"
    /\ stack' = <<>>
    /\ exc' = "Exception"
    /\ lastOp' = InstallOp
    /\ UNCHANGED <<cur, sgids, wrapVars, regVars, cloudVars, oplog, preInstances,
                   preKeypairs, cleanupFailed, envFault, argVars, resultVars, hookVars,
                   args, remote_result, test_runner, exitCode, distro_type>>

\* ---------------------------------------------------------- specification
SgidInputs == {None, SgidsSet}

Next ==
    \/ \E sg \in SgidInputs : Construct(sg)
    \/ Setup
    \/ BotoResource
    \/ CreateKeyPair
    \/ WriteKeyFile
    \/ ChmodKeyFile
    \/ SplitSgids
    \/ CreateInstances
    \/ CreateTags
    \/ WaitUntilRunning
    \/ WaitPublicIp
    \/ ProvisionRaises
    \/ \E i \in Wrappers : ProviderAssignIp(i)
    \/ \E w \in Wrappers : DestroyCall(w)
    \/ TearDown
    \/ DestroyInstance
    \/ DestroyKeyPair
    \/ DestroyRaises
    \/ InterpreterExit
    \/ HookTerminate
    \/ HookDestroyKeyPair
    \/ HookRaises

Spec == Init /\ [][Next]_vars

\* the main thread keeps running and a provider that assigns addresses does so
FairSpec ==
    /\ Init
    /\ [][Next]_vars
    /\ WF_vars(WaitPublicIp)
    /\ \A i \in Wrappers : WF_vars(ProviderAssignIp(i))

\* the plugin on its own: EC2Run.run over the options it may be handed, and
\* _install_avocado over the distro types it may be given
PluginInit ==
    /\ pc = "idle"
    /\ stack = <<>>
    /\ cur = None
    /\ exc = "none"
    /\ lastOp = NoOp
    /\ instance = [w \in Wrappers |-> None]
    /\ key_pair = [w \in Wrappers |-> None]
    /\ wstate = [w \in Wrappers |-> "new"]
    /\ EC2_INSTANCES = <<>>
    /\ EC2_KEYPAIR_WRAPPERS = <<>>
    /\ instState = [w \in Wrappers |-> "none"]
    /\ cloudIp = [w \in Wrappers |-> None]
    /\ public_ip_address = [w \in Wrappers |-> None]
    /\ willAssign = [w \in Wrappers |-> FALSE]
    /\ kpState = [w \in Wrappers |-> "none"]
    /\ fileState = [w \in Wrappers |-> "absent"]
    /\ oplog = <<>>
    /\ preInstances = <<>>
    /\ preKeypairs = <<>>
    /\ failStep = "none"
    /\ cleanupFailed = FALSE
    /\ envFault = FALSE
    /\ ec2_login_timeout = DefaultLoginTimeout
    /\ sgids = None
    /\ elapsed = 0
    /\ result_instance = None
    /\ remote = NoRemote
    /\ setupCalled = FALSE
    /\ hookIdx = 0
    /\ hookRaised = FALSE
    /\ args \in ArgsInputs
    /\ \E sel \in PriorSelections : remote_result = sel[1] /\ test_runner = sel[2]
    /\ exitCode = "none"
    /\ distro_type = DefaultDistro
    /\ remoteRuns = <<>>

PluginNext ==
    \/ Run
    \/ \E d \in DistroInputs : InstallAvocado(d)
    \/ RemoteRun
    \/ RemoteRunRaises

PluginSpec == PluginInit /\ [][PluginNext]_vars

\* ================================================================ claims
Live(i) == instState[i] \in {"pending", "running"}
LiveKeyPair(k) == kpState[k] = "live"
CtorEnded == pc = "idle" /\ lastOp.op = "ctor"
DestroyEnded == pc = "idle" /\ lastOp.op \in {"destroy", "tear_down"} /\ lastOp.w # None
Calls(name, x) == Count(oplog, <<name, x>>)

\* C1: every keypair and instance the provider holds live is in its registry
\* at every point of provisioning, so before each further step that can fail
\* (the write and the chmod of the key file included).
C1_LiveIsRegistered ==
    \A w \in Wrappers :
        /\ LiveKeyPair(w) => InSeq(EC2_KEYPAIR_WRAPPERS, w)
        /\ Live(w) => InSeq(EC2_INSTANCES, w)

\* C2: when the construction of a wrapper raised to its caller after a single
\* failing step (the cleanup itself did not fail), nothing it created is live
\* and neither registry holds it.
C2_FailureLeavesNothing ==
    (CtorEnded /\ exc # "none" /\ ~cleanupFailed) =>
        /\ ~LiveKeyPair(lastOp.w)
        /\ ~Live(lastOp.w)
        /\ ~InSeq(EC2_KEYPAIR_WRAPPERS, lastOp.w)
        /\ ~InSeq(EC2_INSTANCES, lastOp.w)

\* C3: when provisioning raised after the keypair wrapper was registered and
\* before create_instances returned (the split of the security groups or
\* create_instances raised), the keypair wrapper's destroy was called exactly
\* once, no terminate was issued, EC2_INSTANCES is what it was and the
\* exception reached the caller; unless the keypair's delete failed too, the
\* keypair is deleted and EC2_KEYPAIR_WRAPPERS is back to what it was.
C3_FailBeforeInstance ==
    (CtorEnded /\ failStep \in {"sgid", "create_inst"}) =>
        /\ exc # "none"
        /\ Calls("kp_destroy", lastOp.w) = 1
        /\ \A i \in Wrappers : Calls("terminate", i) = 0
        /\ EC2_INSTANCES = preInstances
        /\ ~cleanupFailed =>
             /\ kpState[lastOp.w] = "deleted"
             /\ ~InSeq(EC2_KEYPAIR_WRAPPERS, lastOp.w)
             /\ EC2_KEYPAIR_WRAPPERS = preKeypairs
             /\ Calls("unregister_keypair", lastOp.w) = 1

C3_Witness ==
    /\ CtorEnded
    /\ failStep = "create_inst"
    /\ ~cleanupFailed
    /\ preKeypairs # <<>>

\* C4: a destroy of a wrapper whose instance and keypair were both registered
\* when it was called raises only when a provider call fails, and when it
\* returns it has issued exactly one terminate and one delete, has taken the
\* instance and the keypair wrapper out of their registries exactly once
\* each, and neither registry holds them.
C4_DestroyRemovesOnce ==
    (DestroyEnded /\ InSeq(preInstances, lastOp.w) /\ InSeq(preKeypairs, lastOp.w)) =>
        /\ exc \in {"none", "Exception"}
        /\ exc = "none" =>
             /\ ~InSeq(EC2_INSTANCES, lastOp.w)
             /\ ~InSeq(EC2_KEYPAIR_WRAPPERS, lastOp.w)
             /\ Calls("terminate", lastOp.w) = 1
             /\ Calls("delete", lastOp.w) = 1
             /\ Calls("unregister_instance", lastOp.w) = 1
             /\ Calls("unregister_keypair", lastOp.w) = 1
             /\ Len(EC2_INSTANCES) = Len(preInstances) - 1
             /\ Len(EC2_KEYPAIR_WRAPPERS) = Len(preKeypairs) - 1
             /\ instState[lastOp.w] = "terminated"
             /\ kpState[lastOp.w] = "deleted"

C4_Witness ==
    /\ DestroyEnded
    /\ exc = "none"
    /\ lastOp.pre = "ready"
    /\ Len(preInstances) = 2

\* C5: a destroy called on a wrapper that an earlier destroy already tore
\* down returns normally, when no provider call fails, and leaves both
\* registries as they were.
C5_SecondDestroyReturns ==
    (DestroyEnded /\ lastOp.pre = "destroyed" /\ ~envFault) =>
        /\ exc = "none"
        /\ EC2_INSTANCES = preInstances
        /\ EC2_KEYPAIR_WRAPPERS = preKeypairs

\* the calls the exit hook makes itself, in order
HookCalls == SelectSeq(oplog, LAMBDA c : c[1] \in {"terminate", "kp_destroy"})
HookExpected ==
    [n \in 1..(Len(EC2_INSTANCES) + Len(EC2_KEYPAIR_WRAPPERS)) |->
        IF n <= Len(EC2_INSTANCES)
        THEN <<"terminate", EC2_INSTANCES[n]>>
        ELSE <<"kp_destroy", EC2_KEYPAIR_WRAPPERS[n - Len(EC2_INSTANCES)]>>]

\* C6: an exit hook that ran to its end with N instances and M keypair
\* wrappers registered has called terminate once on each of the N instances,
\* in the order of the registry, and then destroy once on each of the M
\* keypair wrappers, and left both registries as they were.
C6_HookCallsEach ==
    (pc = "exited" /\ ~hookRaised) =>
        /\ HookCalls = HookExpected
        /\ EC2_INSTANCES = preInstances
        /\ EC2_KEYPAIR_WRAPPERS = preKeypairs

C6_Witness ==
    /\ pc = "exited"
    /\ ~hookRaised
    /\ Len(EC2_INSTANCES) = 1
    /\ Len(EC2_KEYPAIR_WRAPPERS) = 2

\* C7: when the exit hook has ended, terminate has been attempted on every
\* registered instance and destroy on every registered keypair wrapper,
\* whether or not one of these calls raised.
C7_HookAttemptsAll ==
    pc = "exited" =>
        /\ \A n \in 1..Len(EC2_INSTANCES) : Calls("terminate", EC2_INSTANCES[n]) >= 1
        /\ \A n \in 1..Len(EC2_KEYPAIR_WRAPPERS) :
               Calls("kp_destroy", EC2_KEYPAIR_WRAPPERS[n]) >= 1

\* C8: a setup that ended with no provider or file system call having failed
\* reached the hand-off: it holds a ready wrapper, remote_hostname is the
\* instance's public IP, remote_key_file the keypair's file, and the port,
\* the user name and the timeout are those of the ec2 options.
C8_SetupHandsOff ==
    (setupCalled /\ pc = "idle" /\ lastOp.op = "setup" /\ ~envFault) =>
        /\ result_instance # None
        /\ remote = [hostname |-> IpOf(result_instance),
                     key_file |-> KeyFileOf(result_instance),
                     port |-> DefaultSshPort,
                     username |-> DefaultUsername,
                     timeout |-> ec2_login_timeout]

\* C9: provisioning polls only an instance the provider reported running,
\* the constructor returns normally only with the instance running and its
\* public_ip_address loaded, and a remote_hostname that was handed off is an
\* address.
C9_ReadyHasPublicIp ==
    /\ pc \in {"tag", "wait_running", "wait_ip"} =>
         /\ instance[cur] # None
         /\ InSeq(EC2_INSTANCES, instance[cur])
    /\ pc = "wait_ip" => instState[instance[cur]] = "running"
    /\ (CtorEnded /\ exc = "none") =>
         /\ instState[lastOp.w] = "running"
         /\ public_ip_address[lastOp.w] = IpOf(lastOp.w)
    /\ result_instance # None => remote.hostname = IpOf(result_instance)

C9_Witness ==
    /\ CtorEnded
    /\ exc = "none"
    /\ wstate[lastOp.w] = "ready"

\* C10: wait_public_ip is left only by returning with an address loaded, by
\* reload raising or by the interpreter exiting, whatever the login timeout
\* and however long it has waited; an address is loaded only when the
\* provider assigns one; and, the loop and the provider being scheduled, the
\* wait on an instance the provider assigns an address to ends.
LeavesWait == pc = "wait_ip" /\ pc' # "wait_ip"
C10_WaitEndsIffIp ==
    /\ [][LeavesWait =>
            \/ /\ pc' = "idle"
               /\ exc' = "none"
               /\ public_ip_address[instance[cur]] # None
            \/ /\ pc' = "destroy_inst"
               /\ failStep' = "wait_ip"
               /\ envFault'
            \/ pc' \in {"hook_inst", "hook_kp", "exited"}]_vars
    /\ [](\A i \in Wrappers : ~willAssign[i] => public_ip_address[i] = None)
    /\ (pc = "wait_ip" /\ willAssign[instance[cur]]) ~> (pc # "wait_ip")

C10_Witness ==
    /\ pc = "wait_ip"
    /\ elapsed > ec2_login_timeout
    /\ public_ip_address[instance[cur]] = None

\* _install_avocado has returned or raised
InstallEnded == pc = "idle" /\ lastOp.op = "install"

\* the command pairs of the three supported types, written out
FedoraPair == <<"sudo curl https://repos-avocadoproject.rhcloud.com/static/avocado-fedora.repo -o /etc/yum.repos.d/avocado.repo",
                "sudo dnf install -y avocado">>
ElPair == <<"sudo curl https://repos-avocadoproject.rhcloud.com/static/avocado-el.repo -o /etc/yum.repos.d/avocado.repo",
            "sudo yum install -y avocado">>
UbuntuPair == <<"sudo echo \"deb http://ppa.launchpad.net/lmr/avocado/ubuntu wily main\" > /etc/apt/sources.list.d/avocado.list",
                "sudo apt-get install --yes --allow-unauthenticated avocado">>
Supported == {"fedora", "el", "ubuntu"}
PairOf(d) == CASE d = "fedora" -> FedoraPair [] d = "el" -> ElPair [] d = "ubuntu" -> UbuntuPair

\* C11: for each of fedora, el and ubuntu, _install_avocado runs that type's
\* fixed (retrieve, install) pair and nothing else: every command it has run
\* is the command of the pair at that position, and when it returns it has
\* run both; for every other value it raises ValueError and has run no
\* remote command
C11_InstallSelectsPair ==
    InstallEnded =>
        IF distro_type \in Supported
        THEN /\ Len(remoteRuns) <= 2
             /\ \A n \in 1..Len(remoteRuns) : remoteRuns[n].cmd = PairOf(distro_type)[n]
             /\ exc = "none" => Len(remoteRuns) = 2
             /\ exc # "ValueError"
        ELSE exc = "ValueError" /\ remoteRuns = <<>>

C11_Witness ==
    /\ InstallEnded
    /\ distro_type = "ubuntu"
    /\ exc = "none"
    /\ Len(remoteRuns) = 2
    /\ remoteRuns[2].cmd = UbuntuPair[2]

\* a step that is a call of EC2Run.run, and whether an option is set when it
\* is made
RunStep == pc = "idle" /\ lastOp'.op = "run"
OptionSet(a) == a \in DOMAIN args /\ args[a] # "<None>" /\ args[a] # ""
OthersSet ==
    OptionSet("ec2_security_group_ids") /\ OptionSet("ec2_subnet_id")
        /\ OptionSet("ec2_instance_type")

\* C12: EC2Run.run with ec2_ami_id set and at least one of
\* ec2_security_group_ids, ec2_subnet_id, ec2_instance_type unset exits the
\* process with AVOCADO_FAIL and sets neither args.remote_result nor
\* args.test_runner; with all four set it sets remote_result to
\* EC2TestResult and test_runner to RemoteTestRunner and does not exit
C12_RunRequiresAll ==
    [][RunStep /\ OptionSet("ec2_ami_id") =>
          IF OthersSet
          THEN /\ remote_result' = "EC2TestResult"
               /\ test_runner' = "RemoteTestRunner"
               /\ exitCode' = "none"
               /\ pc' = "idle"
          ELSE /\ exitCode' = "AVOCADO_FAIL"
               /\ pc' = "exited"
               /\ UNCHANGED <<remote_result, test_runner>>]_vars

C12_Witness ==
    /\ lastOp.op = "run"
    /\ pc = "exited"
    /\ exitCode = "AVOCADO_FAIL"
    /\ OptionSet("ec2_ami_id")
    /\ OptionSet("ec2_security_group_ids")
    /\ OptionSet("ec2_subnet_id")
    /\ ~OptionSet("ec2_instance_type")
    /\ remote_result = "<unset>"

\* C18: EC2Run.run with ec2_ami_id no attribute, None or empty never exits
\* and leaves args.remote_result and args.test_runner as they were, whatever
\* the other ec2 options are
C18_DisabledRunIsNoOp ==
    [][RunStep /\ ~OptionSet("ec2_ami_id") =>
          /\ pc' = "idle"
          /\ UNCHANGED <<exitCode, remote_result, test_runner>>]_vars

C18_Witness ==
    /\ lastOp.op = "run"
    /\ pc = "idle"
    /\ "ec2_ami_id" \in DOMAIN args
    /\ args["ec2_ami_id"] = ""
    /\ ~OptionSet("ec2_subnet_id")
    /\ OptionSet("ec2_instance_type")
    /\ exitCode = "none"
    /\ remote_result = "RemoteTestResult"
    /\ test_runner = "RemoteTestRunner"

\* _install_avocado is running its remote commands
Installing == pc \in {"install_retrieve", "install_install"}
RunsOf(c) == Cardinality({n \in 1..Len(remoteRuns) : remoteRuns[n].cmd = c})

\* C14: for a supported distro type _install_avocado runs two remote
\* commands, the retrieve command first and the install command second, each
\* once and each with timeout 300: at no point has the install command run
\* without the retrieve command before it, a return means exactly the two
\* runs in that order, and when the retrieve command raised the install
\* command has not run
C14_RetrieveThenInstall ==
    (Installing \/ InstallEnded) /\ distro_type \in Supported =>
        LET retrieve == PairOf(distro_type)[1]
            install == PairOf(distro_type)[2]
        IN /\ \A n \in 1..Len(remoteRuns) : remoteRuns[n].timeout = 300
           /\ RunsOf(retrieve) <= 1 /\ RunsOf(install) <= 1
           /\ \A n \in 1..Len(remoteRuns) :
                  remoteRuns[n].cmd = install => n = 2 /\ remoteRuns[1].cmd = retrieve
           /\ InstallEnded /\ exc = "none" =>
                  remoteRuns = <<[cmd |-> retrieve, timeout |-> 300],
                                 [cmd |-> install, timeout |-> 300]>>
           /\ InstallEnded /\ failStep = "install_retrieve" =>
                  /\ exc # "none"
                  /\ remoteRuns = <<[cmd |-> retrieve, timeout |-> 300]>>

C14_Witness ==
    /\ InstallEnded
    /\ distro_type = "el"
    /\ exc = "none"
    /\ remoteRuns = <<[cmd |-> ElPair[1], timeout |-> 300],
                      [cmd |-> ElPair[2], timeout |-> 300]>>

\* EC2TestResult.setup has returned or raised
SetupEnded == pc = "idle" /\ lastOp.op = "setup"

C15_DeleteThenBestEffortRemove ==
    /\ \A n \in 1..Len(oplog) :
           oplog[n][1] = "os_remove" => n > 1 /\ oplog[n - 1] = <<"delete", oplog[n][2]>>
    /\ DestroyEnded =>
         \A k \in Wrappers :
             /\ Calls("OSError", k) >= 1 =>
                  /\ exc = "none"
                  /\ kpState[k] = "deleted"
                  /\ Calls("unregister_keypair", k) = 1
                  /\ ~InSeq(EC2_KEYPAIR_WRAPPERS, k)
             /\ Calls("delete_raised", k) >= 1 =>
                  /\ exc = "Exception"
                  /\ Calls("os_remove", k) = 0
                  /\ fileState[k] = "restricted"
                  /\ InSeq(EC2_KEYPAIR_WRAPPERS, k)

C15_Witness ==
    /\ DestroyEnded
    /\ exc = "none"
    /\ Calls("OSError", lastOp.w) = 1
    /\ fileState[lastOp.w] = "restricted"
    /\ InSeq(preKeypairs, lastOp.w)
    /\ ~InSeq(EC2_KEYPAIR_WRAPPERS, lastOp.w)

\* the step issues the provider call named on resource x
Issues(name, x) ==
    /\ Len(oplog') > Len(oplog)
    /\ \E n \in (Len(oplog) + 1)..Len(oplog') : oplog'[n] = <<name, x>>
\* the call in progress is a destroy of a wrapper whose instance an earlier
\* destroy has already terminated and taken out of the registry: a second
\* destroy of the same wrapper
SecondDestroy ==
    /\ stack # <<>>
    /\ Top \in {"destroy", "tear_down"}
    /\ instance[cur] # None
    /\ ~InSeq(preInstances, instance[cur])

C17_KeyFileNeverWide == \A k \in Wrappers : fileState[k] # "wide"

====
